---- MODULE Spec2Model ----
(***************************************************************************)
(* Model of src/main.py: YandexLavkaMonitor.                               *)
(*                                                                         *)
(* The program is one asyncio event loop that runs the monitoring_loop     *)
(* task and the bot's command handlers.  Coroutines are cooperative: the   *)
(* code between two awaits runs atomically, so every action below is the   *)
(* code of one coroutine from one suspension point (await) to the next.    *)
(* The suspension points of monitoring_loop are the awaits of check_slots  *)
(* (lines 294, 304), of bot.send_message (267), of asyncio.sleep(0.1)      *)
(* (276) and of asyncio.sleep(CHECK_INTERVAL) (319, 323).                  *)
(***************************************************************************)
EXTENDS Integers, Sequences, FiniteSets, TLC

(***************************************************************************)
(* Bounds of the model.                                                    *)
(***************************************************************************)
\* number of Telegram users that may send commands
MaxUsers == 2
\* largest number of records in a fetched snapshot
MaxSlots == 2

Users == 1..MaxUsers

(***************************************************************************)
(* Python values.  A str is a sequence of one-character strings, so that   *)
(* str() and repr() can be computed character by character.                *)
(***************************************************************************)
Quote == "'"
DQuote == "\""
Backslash == "\\"

\* the strings the slots API returns for 'date' and 'from' in this model.
\* Two of them hold quote characters and a comma, the characters str() of a
\* list of tuples itself produces.
DatePlain == <<"1">>
DateQuoted == <<"1", "'", ",", " ", "'", "2">>
TimeLate == <<"3">>
TimeQuoted == <<"2", "'", ",", " ", "'", "3">>

\* price None and price 0 are both falsy; the model writes 0 for both
NoPrice == 0

\* a slot record as parse_slots builds it (lines 203-209)
SlotRecord(d, f, t, p, c) ==
    [date |-> d, start_time |-> f, end_time |-> t, price |-> p, currency |-> c]

\* the records a fetch may return: two with the same (date, start_time) and
\* different prices, and one with another (date, start_time)
Records ==
    { SlotRecord(DatePlain, TimeQuoted, TimeLate, 99, "RUB"),
      SlotRecord(DatePlain, TimeQuoted, TimeLate, NoPrice, "RUB"),
      SlotRecord(DateQuoted, TimeLate, TimeLate, 99, "RUB") }

\* the lists parse_slots may return: the API lists a slot once
Snapshots ==
    UNION { { f \in [1..n -> Records] : \A i, j \in 1..n : f[i] = f[j] => i = j } :
            n \in 0..MaxSlots }

\* the return values of check_slots: None, or a list of slot records
None == [none |-> TRUE, slots |-> <<>>]
SlotList(s) == [none |-> FALSE, slots |-> s]
FetchResults == {None} \cup { SlotList(s) : s \in Snapshots }

\* a test `is not None` in place of the truth value
TruthyNotNone(r) == ~r.none

\* Python truth value of a check_slots result: None and [] are falsy
Truthy(r) == ~r.none /\ r.slots # <<>>

(***************************************************************************)
(* str() of a list of (date, start_time) tuples, as CPython computes it.   *)
(***************************************************************************)
Contains(s, c) == \E i \in DOMAIN s : s[i] = c

\* repr of a str picks the quote: double quotes when the text holds a single
\* quote and no double quote, single quotes otherwise
ReprQuote(s) == IF Contains(s, Quote) /\ ~Contains(s, DQuote) THEN DQuote ELSE Quote

RECURSIVE Escape(_, _)
\* the text of s between the quotes: the quote character and the backslash
\* are written with a backslash before them
Escape(s, q) ==
    IF s = <<>> THEN <<>>
    ELSE (IF Head(s) \in {q, Backslash} THEN <<Backslash, Head(s)>> ELSE <<Head(s)>>)
         \o Escape(Tail(s), q)

\* the text between single quotes, with nothing escaped
ReprStrNaive(s) == <<Quote>> \o s \o <<Quote>>

ReprStr(s) == <<ReprQuote(s)>> \o Escape(s, ReprQuote(s)) \o <<ReprQuote(s)>>

\* repr of the tuple (a, b)
ReprTuple(t) == <<"(">> \o ReprStr(t[1]) \o <<",", " ">> \o ReprStr(t[2]) \o <<")">>

RECURSIVE JoinTuples(_)
JoinTuples(ts) ==
    IF ts = <<>> THEN <<>>
    ELSE IF Len(ts) = 1 THEN ReprTuple(ts[1])
    ELSE ReprTuple(ts[1]) \o <<",", " ">> \o JoinTuples(Tail(ts))

\* str(list of tuples)
StrList(ts) == <<"[">> \o JoinTuples(ts) \o <<"]">>

\* [(s.get('date', ''), s.get('start_time', '')) for s in slots]
KeyList(slots) == [i \in 1..Len(slots) |-> <<slots[i].date, slots[i].start_time>>]

(***************************************************************************)
(* has_new_slots (lines 240-254): the value it returns and the value of    *)
(* self.last_slots after the call.                                         *)
(***************************************************************************)
\* has_new_slots comparing the whole records
has_new_slots_records(cur, last) ==
    IF ~Truthy(cur) THEN [ret |-> FALSE, last_slots |-> last]
    ELSE [ret |-> cur.slots # last,
          last_slots |-> IF cur.slots # last THEN cur.slots ELSE last]

has_new_slots(cur, last) ==
    IF ~Truthy(cur) THEN [ret |-> FALSE, last_slots |-> last]
    ELSE LET changed == StrList(KeyList(cur.slots)) # StrList(KeyList(last))
         IN  [ret |-> changed,
              last_slots |-> IF changed THEN cur.slots ELSE last]

\* "bot was blocked" in str(e).lower() or "chat not found" in str(e).lower()
\* (line 281), for the three outcomes of a send: "ok" (no exception),
\* "unreachable" (an exception with one of the two texts), "other" (any
\* other exception)
Outcomes == {"ok", "unreachable", "other"}
\* every failure of a send classified as unreachable
IsAnyFailure(outcome) == outcome # "ok"

IsUnreachable(outcome) == outcome = "unreachable"

\* list(self.subscribers) (line 265): the members of the set in the order
\* the set's hash table yields, which the program does not control
ListOf(S) == { f \in [1..Cardinality(S) -> S] : \A i, j \in DOMAIN f : f[i] = f[j] => i = j }

(***************************************************************************)
(* parse_slots (lines 188-212).  The JSON body of a slots response is a    *)
(* dict; a key that is absent reads as its default: [] for 'slots' and     *)
(* 'available_slots', '' for 'date', False for 'available'.                *)
(***************************************************************************)
\* largest number of day entries in a slots response
MaxDays == 2

\* a date of the form the API documents, and the '' of an entry without 'date'
DateIso == <<"2", "0", "2", "5", "-", "0", "1", "-", "0", "5">>
DateMissing == <<>>
TimeEarly == <<"1">>

\* a slot entry of a day
ApiSlot(a, ty, f) ==
    [available |-> a, type |-> ty, from |-> f, to |-> TimeLate,
     price |-> 99, currency |-> "RUB"]

\* the slot entries of the responses: two that are available and regular, one
\* that is regular and not available, one that is available and not regular
SlotEarly == ApiSlot(TRUE, "regular", TimeEarly)
SlotLate == ApiSlot(TRUE, "regular", TimeLate)
SlotTaken == ApiSlot(FALSE, "regular", TimeEarly)
SlotExpress == ApiSlot(TRUE, "express", TimeEarly)

\* the slot lists of a day entry
ApiSlotLists ==
    { <<>>, <<SlotEarly>>, <<SlotTaken>>, <<SlotExpress>>,
      <<SlotEarly, SlotLate>>, <<SlotLate, SlotEarly>>,
      <<SlotTaken, SlotLate>>, <<SlotEarly, SlotExpress>>, <<SlotExpress, SlotTaken>> }

\* a day entry: its date and its slot entries
ApiDays ==
    { [date |-> d, slots |-> sl] : d \in {DateIso, DateMissing}, sl \in ApiSlotLists }

\* the day lists of at most max entries
ApiDayLists(max) == UNION { [1..n -> ApiDays] : n \in 0..max }

\* a response that names its day list 'slots' and 'available_slots' at once
BothKeysDays == <<[date |-> DateIso, slots |-> <<SlotLate>>]>>

\* the well-formed bodies of a slots response, of at most max day entries
SlotsBodies(max) ==
    { [slots |-> l, available_slots |-> <<>>] : l \in ApiDayLists(max) }
      \cup { [slots |-> <<>>, available_slots |-> l] : l \in ApiDayLists(max) }
      \cup { [slots |-> l, available_slots |-> BothKeysDays] : l \in ApiDayLists(max) }

\* line 202 without the test of the type
KeepsSlotAvailable(slot) == slot.available

\* line 202
KeepsSlot(slot) == slot.available /\ slot.type = "regular"

RECURSIVE ParseDaySlots(_, _)
\* lines 201-209 for one day entry
ParseDaySlots(date, slots) ==
    IF slots = <<>> THEN <<>>
    ELSE (IF KeepsSlot(Head(slots))
          THEN <<SlotRecord(date, Head(slots).from, Head(slots).to,
                            Head(slots).price, Head(slots).currency)>>
          ELSE <<>>)
         \o ParseDaySlots(date, Tail(slots))

RECURSIVE ParseDays(_)
\* lines 197-209
ParseDays(days) ==
    IF days = <<>> THEN <<>>
    ELSE ParseDaySlots(Head(days).date, Head(days).slots) \o ParseDays(Tail(days))

\* lines 193-195: the day list, 'available_slots' when 'slots' is empty
SlotsListOf(slots_data) ==
    IF slots_data.slots # <<>> THEN slots_data.slots ELSE slots_data.available_slots

parse_slots(slots_data) == ParseDays(SlotsListOf(slots_data))

(***************************************************************************)
(* check_slots, get_store_slots and direct_slots_check (lines 91-186).     *)
(* The outcome of a request is a transport error ("error": session.get     *)
(* raises), a status that is not 200 ("status"), a 200 whose body is not   *)
(* the JSON object the code reads ("malformed": response.json() or the     *)
(* first .get on it raises), or a 200 with such an object ("ok").          *)
(***************************************************************************)
\* largest number of stores in a search response
MaxStores == 2

BodyEmpty == [slots |-> <<>>, available_slots |-> <<>>]
BodyOneSlot ==
    [slots |-> <<[date |-> DateIso,
                  slots |-> <<SlotEarly, SlotTaken>>]>>,
     available_slots |-> <<>>]

\* the outcomes of a slots request
SlotsResponses ==
    { [kind |-> k, body |-> BodyEmpty] : k \in {"error", "status", "malformed", "ok"} }
      \cup { [kind |-> "ok", body |-> BodyOneSlot] }

\* the identifiers of stores; 0 stands for a store entry without the key 'id'
StoreIds == {1, 2}
NoId == 0

\* a store entry of the search response: whether its address, in lower case,
\* contains the street name and contains '20', its 'id', and whether it
\* has the key 'name'
Store(st, tw, i, nm) == [street |-> st, twenty |-> tw, id |-> i, has_name |-> nm]

Stores ==
    { Store(TRUE, TRUE, 1, TRUE), Store(TRUE, TRUE, 2, TRUE),
      Store(TRUE, TRUE, 1, FALSE), Store(TRUE, TRUE, NoId, TRUE),
      Store(TRUE, FALSE, 1, TRUE), Store(FALSE, FALSE, 2, TRUE) }

\* the store lists of at most max entries
StoreLists(max) == UNION { [1..n -> Stores] : n \in 0..max }

\* the outcomes of the search request: the store list of a body is under
\* 'found'.'stores' or under 'stores'
SearchResponses(max) ==
    { [kind |-> k, found_stores |-> <<>>, stores |-> <<>>] :
         k \in {"error", "status", "malformed"} }
      \cup { [kind |-> "ok", found_stores |-> l, stores |-> <<>>] : l \in StoreLists(max) }
      \cup { [kind |-> "ok", found_stores |-> <<>>, stores |-> l] : l \in StoreLists(max) }

\* lines 139-157: every exception is caught at line 155
get_store_slots(response) ==
    IF response.kind = "ok" THEN SlotList(parse_slots(response.body)) ELSE None

\* lines 159-186: every exception is caught at line 184
direct_slots_check(response) ==
    IF response.kind = "ok" THEN SlotList(parse_slots(response.body)) ELSE None

\* line 124
IsTarget(store) == store.street /\ store.twenty

\* lines 119-124: the index of the first store of the list that the loop
\* takes for the target, 0 when it takes none
FirstTarget(stores) ==
    IF \E i \in 1..Len(stores) : IsTarget(stores[i])
    THEN CHOOSE i \in 1..Len(stores) :
            /\ IsTarget(stores[i])
            /\ \A j \in 1..(i - 1) : ~IsTarget(stores[j])
    ELSE 0

\* the return of the fallback, line 133
ViaDirect(direct) ==
    [exc |-> FALSE, val |-> direct_slots_check(direct), asked |-> <<>>, direct |-> TRUE]

\* an exception that leaves the try block of lines 93-133
Raise == [exc |-> TRUE, val |-> None, asked |-> <<>>, direct |-> FALSE]

\* lines 94-133, the body of the try block: exc tells that an exception left
\* it, asked lists the store ids get_store_slots was called with, direct
\* tells that direct_slots_check was called
check_slots_try(search, store_slots, direct) ==
    IF search.kind = "error" THEN Raise
    ELSE IF search.kind = "status" THEN ViaDirect(direct)
    ELSE IF search.kind = "malformed" THEN Raise
    ELSE LET stores == IF search.found_stores # <<>> THEN search.found_stores
                                                     ELSE search.stores
             m == FirstTarget(stores)
         IN  IF m = 0 THEN ViaDirect(direct)
             ELSE IF stores[m].id = NoId THEN Raise
             ELSE IF ~stores[m].has_name THEN Raise
             ELSE [exc |-> FALSE, val |-> get_store_slots(store_slots[stores[m].id]),
                   asked |-> <<stores[m].id>>, direct |-> FALSE]

\* check_slots without the except clause of line 135
check_slots_unguarded(search, store_slots, direct) ==
    LET r == check_slots_try(search, store_slots, direct)
    IN  [raised |-> r.exc, val |-> r.val, asked |-> r.asked, direct |-> r.direct]

\* lines 91-137
check_slots(search, store_slots, direct) ==
    LET r == check_slots_try(search, store_slots, direct)
    IN  [raised |-> FALSE, val |-> IF r.exc THEN None ELSE r.val,
         asked |-> r.asked, direct |-> r.direct]

(***************************************************************************)
(* format_slots_message (lines 214-238).  The message is the sequence of   *)
(* its parts: the title, one part per rendered entry, the summary line,    *)
(* the line with the time of the check.                                    *)
(***************************************************************************)
\* the number of entries of the slice of line 220, also lines 234-235
MaxShown == 15

\* largest number of records of a snapshot to format
MaxRecords == 20

Digits == <<"0", "1", "2", "3", "4", "5", "6", "7", "8", "9">>
IsDigit(c) == \E v \in 1..10 : Digits[v] = c
DigitVal(c) == (CHOOSE v \in 1..10 : Digits[v] = c) - 1

RECURSIVE Num(_)
\* the number a sequence of digits denotes
Num(t) == IF t = <<>> THEN 0 ELSE 10 * Num(SubSeq(t, 1, Len(t) - 1)) + DigitVal(t[Len(t)])

RECURSIVE Dec(_)
\* the decimal digits of a number
Dec(n) == IF n < 10 THEN <<Digits[n + 1]>> ELSE Dec(n \div 10) \o <<Digits[(n % 10) + 1]>>

\* %d and %m of strftime: two digits
Pad2(n) == IF n < 10 THEN <<"0">> \o Dec(n) ELSE Dec(n)

\* what the directive %m of strptime matches: 1[0-2]|0[1-9]|[1-9]
MonthToken(t) ==
    \/ Len(t) = 1 /\ IsDigit(t[1]) /\ t[1] # "0"
    \/ Len(t) = 2 /\ t[1] = "0" /\ IsDigit(t[2]) /\ t[2] # "0"
    \/ Len(t) = 2 /\ t[1] = "1" /\ t[2] \in {"0", "1", "2"}

\* what the directive %d of strptime matches: 3[01]|[12]\d|0[1-9]|[1-9]| [1-9]
DayToken(t) ==
    \/ Len(t) = 1 /\ IsDigit(t[1]) /\ t[1] # "0"
    \/ Len(t) = 2 /\ t[1] = "3" /\ t[2] \in {"0", "1"}
    \/ Len(t) = 2 /\ t[1] \in {"1", "2"} /\ IsDigit(t[2])
    \/ Len(t) = 2 /\ t[1] \in {"0", " "} /\ IsDigit(t[2]) /\ t[2] # "0"

IsLeap(y) == y % 4 = 0 /\ (y % 100 # 0 \/ y % 400 = 0)

DaysInMonth(y, m) ==
    IF m = 2 THEN (IF IsLeap(y) THEN 29 ELSE 28)
    ELSE IF m \in {4, 6, 9, 11} THEN 30 ELSE 31

\* the value of a day token, whose first character may be a space
DayVal(t) == IF t[1] = " " THEN DigitVal(t[2]) ELSE Num(t)

\* datetime.strptime(s, '%Y-%m-%d') of line 222: ok tells that it returns,
\* and then y, m, d are the date; it raises when s has another form, when
\* characters remain, and when the date does not exist
strptime(s) ==
    LET n == Len(s)
        bad == [ok |-> FALSE, y |-> 0, m |-> 0, d |-> 0]
    IN  IF n < 8 \/ n > 10 THEN bad
        ELSE IF ~(\A i \in 1..4 : IsDigit(s[i])) \/ s[5] # "-" THEN bad
        ELSE IF ~(\E k \in 7..8 : s[k] = "-") THEN bad
        ELSE LET k == CHOOSE j \in 7..8 : s[j] = "-" /\ \A h \in 7..(j - 1) : s[h] # "-"
                 mt == SubSeq(s, 6, k - 1)
                 dt == SubSeq(s, k + 1, n)
             IN  IF ~MonthToken(mt) \/ ~DayToken(dt) THEN bad
                 ELSE IF Num(SubSeq(s, 1, 4)) < 1 THEN bad
                 ELSE IF DayVal(dt) > DaysInMonth(Num(SubSeq(s, 1, 4)), Num(mt)) THEN bad
                 ELSE [ok |-> TRUE, y |-> Num(SubSeq(s, 1, 4)), m |-> Num(mt),
                       d |-> DayVal(dt)]

\* strftime('%d.%m.%Y') of line 223
strftime(date) == Pad2(date.d) \o <<".">> \o Pad2(date.m) \o <<".">> \o Dec(date.y)

\* the loop of line 220 over every record of the snapshot
ShownAll(slots) == slots

\* slots[:15] of line 220
Shown(slots) == SubSeq(slots, 1, IF Len(slots) < MaxShown THEN Len(slots) ELSE MaxShown)

RECURSIVE FormatEntries(_, _)
\* lines 220-232 for the records from position i on: a record whose date
\* strptime rejects is skipped by the except clause of line 230
FormatEntries(slots, i) ==
    IF i > Len(slots) THEN <<>>
    ELSE (IF strptime(slots[i].date).ok
          THEN <<[kind |-> "entry", n |-> i,
                  date_str |-> strftime(strptime(slots[i].date)),
                  start_time |-> slots[i].start_time, end_time |-> slots[i].end_time,
                  price_line |-> slots[i].price # NoPrice]>>
          ELSE <<>>)
         \o FormatEntries(slots, i + 1)

format_slots_message(slots) ==
    IF slots = <<>> THEN <<[kind |-> "no_slots"]>>
    ELSE <<[kind |-> "title"]>>
         \o FormatEntries(Shown(slots), 1)
         \o (IF Len(slots) > MaxShown
             THEN <<[kind |-> "more", n |-> Len(slots) - MaxShown]>> ELSE <<>>)
         \o <<[kind |-> "checked"]>>

(***************************************************************************)
(* State.                                                                  *)
(***************************************************************************)
VARIABLES
    subscribers,    \* self.subscribers
    last_slots,     \* self.last_slots
    pc,             \* the await monitoring_loop is suspended at
    current_slots,  \* monitoring_loop: the result of the last check_slots
                    \* (initial_slots after the seed fetch, unset = None before)
    has_changes,    \* what has_new_slots returned in the last cycle
                    \* (FALSE when the cycle did not call it)
    notif_calls,    \* calls of send_notifications in the last cycle
    batch_slots,    \* send_notifications: its argument slots
    notify_list,    \* send_notifications: list(self.subscribers) of line 265
    batch_i,        \* send_notifications: position in notify_list of user_id
    last_outcome,   \* outcome of the last send_message that returned
    transient,      \* users whose send of the last batch failed and was only logged
    sent_any,       \* whether bot.send_message has ever been called
    carried,        \* the slots argument of the latest send_notifications call
                    \* (None before the first call)
    handler,        \* the command handler that is suspended at an await of
                    \* its own: "status" while status awaits check_slots
    call            \* a method applied on its own: its arguments and result

vars == <<subscribers, last_slots, pc, current_slots, has_changes, notif_calls,
          batch_slots, notify_list, batch_i, last_outcome, transient, sent_any,
          carried, handler, call>>

loop_locals == <<current_slots, has_changes, notif_calls>>
batch_locals == <<batch_slots, notify_list, batch_i, last_outcome, transient>>

\* no method has been applied on its own
NoCall == [fn |-> "none"]

\* after YandexLavkaMonitor.__init__ (lines 19-24) and the start of
\* monitoring_loop up to its first await (lines 287-294)
Init ==
    /\ subscribers = {}
    /\ last_slots = <<>>
    /\ pc = "seed_fetch"
    /\ current_slots = None
    /\ has_changes = FALSE
    /\ notif_calls = 0
    /\ batch_slots = <<>>
    /\ notify_list = <<>>
    /\ batch_i = 0
    /\ last_outcome = "none"
    /\ transient = {}
    /\ sent_any = FALSE
    /\ carried = None
    /\ handler = "idle"
    /\ call = NoCall

(***************************************************************************)
(* monitoring_loop (lines 287-323).                                        *)
(***************************************************************************)
\* a seed fetch that does not store what it fetched
SeedKeepsLast(initial_slots, last) == last

\* lines 295-299: self.last_slots after the seed fetch returned initial_slots
SeedLastSlots(initial_slots, last) ==
    IF Truthy(initial_slots) THEN initial_slots.slots ELSE last

\* lines 294-304: the seed fetch returns; the loop enters `while True` and
\* awaits the first fetch of a cycle
SeedReturn(initial_slots) ==
    /\ pc = "seed_fetch"
    /\ current_slots' = initial_slots
    /\ last_slots' = SeedLastSlots(initial_slots, last_slots)
    /\ pc' = "fetch"
    /\ UNCHANGED <<subscribers, has_changes, notif_calls, batch_locals, sent_any,
                   carried, handler, call>>

\* a cycle that treats every non-empty fetch as a change
DetectAlways(cur, last) ==
    IF Truthy(cur) THEN [ret |-> TRUE, last_slots |-> cur.slots]
    ELSE [ret |-> FALSE, last_slots |-> last]

\* lines 306-316: the change detection of one cycle; has_new_slots is called
\* only under `if current_slots:`
Detect(cur, last) ==
    IF Truthy(cur) THEN has_new_slots(cur, last)
    ELSE [ret |-> FALSE, last_slots |-> last]

\* line 312 with lines 256-267: send_notifications(slots) up to its first
\* await.  Without subscribers it returns at once; otherwise it takes
\* list(self.subscribers) and calls send_message for the first user.
StartBatch(slots) ==
    /\ notif_calls' = 1
    /\ batch_slots' = slots
    /\ carried' = SlotList(slots)
    /\ IF subscribers = {}
       THEN /\ notify_list' = <<>>
            /\ batch_i' = 0
            /\ pc' = "sleep"
            /\ UNCHANGED sent_any
       ELSE /\ notify_list' \in ListOf(subscribers)
            /\ batch_i' = 1
            /\ pc' = "send"
            /\ sent_any' = TRUE

\* lines 304-319: a fetch of the loop returns current_slots; the cycle runs
\* up to its next await: the first send_message of a batch, or the sleep
RunReturn(cur) ==
    LET d == Detect(cur, last_slots) IN
    /\ pc = "fetch"
    /\ current_slots' = cur
    /\ has_changes' = d.ret
    /\ last_slots' = d.last_slots
    /\ last_outcome' = "none"
    /\ transient' = {}
    /\ IF d.ret
       THEN StartBatch(cur.slots)
       ELSE /\ notif_calls' = 0
            /\ batch_slots' = <<>>
            /\ notify_list' = <<>>
            /\ batch_i' = 0
            /\ pc' = "sleep"
            /\ UNCHANGED <<sent_any, carried>>
    /\ UNCHANGED <<subscribers, handler, call>>

(***************************************************************************)
(* send_notifications (lines 256-285).                                     *)
(***************************************************************************)
\* the user_id of the loop of line 265
user_id == notify_list[batch_i]

\* the for loop of line 265 takes its next user and calls send_message, or
\* ends: send_notifications returns and the cycle sleeps (line 319)
NextRecipient ==
    IF batch_i < Len(notify_list)
    THEN /\ batch_i' = batch_i + 1
         /\ pc' = "send"
         /\ UNCHANGED notify_list
    ELSE /\ batch_i' = 0
         /\ notify_list' = <<>>
         /\ pc' = "sleep"

\* an iteration without the try/except: the exception ends the task
LoopCrash == pc' = "crashed"

\* lines 321-323: an exception that leaves the try block of the iteration is
\* caught and logged, and the loop sleeps
LoopCatch == pc' = "sleep_exc"

\* lines 267-283: send_message returns or raises
SendReturn(outcome) ==
    /\ pc = "send"
    /\ last_outcome' = outcome
    /\ IF outcome = "ok"
       THEN \* lines 272-276: count it, then await asyncio.sleep(0.1)
            /\ pc' = "pause"
            /\ UNCHANGED <<subscribers, transient, notify_list, batch_i>>
       ELSE IF IsUnreachable(outcome)
       THEN IF user_id \in subscribers
            THEN \* line 282
                 /\ subscribers' = subscribers \ {user_id}
                 /\ UNCHANGED transient
                 /\ NextRecipient
            ELSE \* line 282: set.remove of an absent element raises KeyError
                 \* inside the except block; it leaves send_notifications and
                 \* is caught at line 321, which sleeps (line 323)
                 /\ LoopCatch
                 /\ notify_list' = <<>>
                 /\ batch_i' = 0
                 /\ UNCHANGED <<subscribers, transient>>
       ELSE \* line 279: any other failure is logged
            /\ transient' = transient \cup {user_id}
            /\ UNCHANGED subscribers
            /\ NextRecipient
    /\ UNCHANGED <<last_slots, loop_locals, batch_slots, sent_any,
                   carried, handler, call>>

\* line 276: asyncio.sleep(0.1) returns
PauseDone ==
    /\ pc = "pause"
    /\ NextRecipient
    /\ UNCHANGED <<subscribers, last_slots, loop_locals, batch_slots,
                   last_outcome, transient, sent_any, carried, handler, call>>

\* lines 319 and 323: asyncio.sleep(CHECK_INTERVAL) returns and the next
\* iteration begins: line 304 awaits the next fetch.  The record of what the
\* finished cycle did (has_changes, notif_calls, batch_slots, last_outcome)
\* is cleared; current_slots keeps its value until the fetch returns.
SleepDone ==
    /\ pc \in {"sleep", "sleep_exc"}
    /\ pc' = "fetch"
    /\ has_changes' = FALSE
    /\ notif_calls' = 0
    /\ batch_slots' = <<>>
    /\ last_outcome' = "none"
    /\ UNCHANGED <<subscribers, last_slots, current_slots, notify_list, batch_i,
                   transient, sent_any, carried, handler, call>>

(***************************************************************************)
(* Command handlers.  Each changes self.subscribers before its only await. *)
(* The Application of line 21 is built without concurrent updates, so it   *)
(* starts a handler only when the handler before it has returned.          *)
(***************************************************************************)
\* lines 63-67 on the set S: set.add never raises
subscribe_call(S, u) ==
    [set |-> S \cup {u}, raised |-> FALSE, reply |-> "subscribed"]

\* line 72 without the test of line 71: set.remove raises KeyError when the
\* element is absent
unsubscribe_unguarded(S, u) ==
    [set |-> S \ {u}, raised |-> u \notin S, reply |-> "unsubscribed"]

\* lines 69-76 on the set S
unsubscribe_call(S, u) ==
    IF u \in S
    THEN [set |-> S \ {u}, raised |-> FALSE, reply |-> "unsubscribed"]
    ELSE [set |-> S, raised |-> FALSE, reply |-> "not_subscribed"]

\* lines 63-67
subscribe(u) ==
    /\ handler = "idle"
    /\ subscribers' = subscribe_call(subscribers, u).set
    /\ UNCHANGED <<last_slots, pc, loop_locals, batch_locals, sent_any,
                   carried, handler, call>>

\* lines 69-76
unsubscribe(u) ==
    /\ handler = "idle"
    /\ subscribers' = unsubscribe_call(subscribers, u).set
    /\ UNCHANGED <<last_slots, pc, loop_locals, batch_locals, sent_any,
                   carried, handler, call>>

\* lines 34-49: start replies with a fixed text
start ==
    /\ handler = "idle"
    /\ UNCHANGED vars

\* lines 51-61: info replies with len(self.subscribers) and the configuration
info ==
    /\ handler = "idle"
    /\ UNCHANGED vars

\* lines 78-82: status replies that it is checking and awaits check_slots
status_begin ==
    /\ handler = "idle"
    /\ handler' = "status"
    /\ UNCHANGED <<subscribers, last_slots, pc, loop_locals, batch_locals,
                   sent_any, carried, call>>

\* a status handler that stores what it fetched in self.last_slots
status_return_stores(slots) ==
    /\ handler = "status"
    /\ handler' = "idle"
    /\ last_slots' = IF Truthy(slots) THEN slots.slots ELSE last_slots
    /\ UNCHANGED <<subscribers, pc, loop_locals, batch_locals,
                   sent_any, carried, call>>

\* lines 82-89: check_slots returns slots to status, which replies with the
\* formatted slots or with the text that there are none
status_return(slots) ==
    /\ handler = "status"
    /\ handler' = "idle"
    /\ UNCHANGED <<subscribers, last_slots, pc, loop_locals, batch_locals,
                   sent_any, carried, call>>

\* the steps of the monitoring_loop task
LoopStep ==
    \/ \E r \in FetchResults : SeedReturn(r)
    \/ \E r \in FetchResults : RunReturn(r)
    \/ \E o \in Outcomes : SendReturn(o)
    \/ PauseDone
    \/ SleepDone

Next ==
    \/ \E r \in FetchResults : SeedReturn(r)
    \/ \E r \in FetchResults : RunReturn(r)
    \/ \E o \in Outcomes : SendReturn(o)
    \/ PauseDone
    \/ SleepDone
    \/ \E u \in Users : subscribe(u)
    \/ \E u \in Users : unsubscribe(u)

Spec == Init /\ [][Next]_vars

\* the program with the handlers start, info and status as well
CmdNext ==
    \/ Next
    \/ start
    \/ info
    \/ status_begin
    \/ \E r \in FetchResults : status_return(r)

CmdSpec == Init /\ [][CmdNext]_vars

(***************************************************************************)
(* Methods applied on their own, to arguments drawn from the sets above.   *)
(***************************************************************************)
core == <<subscribers, last_slots, pc, loop_locals, batch_locals, sent_any,
          carried, handler>>

\* the calls to make: a method and its arguments
ParseSlotsCalls(max) ==
    { [fn |-> "parse_slots", done |-> FALSE, data |-> d] : d \in SlotsBodies(max) }

CommandSeqs ==
    { <<a>> : a \in {"subscribe", "unsubscribe"} }
      \cup { <<a, b>> : a \in {"subscribe", "unsubscribe"}, b \in {"subscribe", "unsubscribe"} }

CommandCalls ==
    { [fn |-> "commands", done |-> FALSE, before |-> S, user |-> u, ops |-> o] :
        S \in SUBSET Users, u \in Users, o \in CommandSeqs }

\* the outcome of the store-slots request of each store
StoreSlotsResponses ==
    { ss \in [StoreIds -> SlotsResponses] :
         ss[2] \in {[kind |-> "status", body |-> BodyEmpty], [kind |-> "ok", body |-> BodyOneSlot]} }

CheckSlotsCalls(max) ==
    { [fn |-> "check_slots", done |-> FALSE, search |-> sr, store_slots |-> ss,
       direct |-> dr] :
        sr \in SearchResponses(max), ss \in StoreSlotsResponses, dr \in SlotsResponses }

\* a date that does not exist
DateFeb30 == <<"2", "0", "2", "5", "-", "0", "2", "-", "3", "0">>

\* snapshots of at most max equal records, and those with one record of
\* another date
FormatSnapshots(max) ==
    { [i \in 1..n |-> SlotRecord(IF i = b THEN d ELSE DateIso,
                                 TimeEarly, TimeLate, 99, "RUB")] :
        n \in 0..max, b \in 0..max,
        d \in {DateMissing, DateFeb30, <<"2", "0", "2", "4", "-", "2", "-", "2", "9">>} }

FormatCalls(max) ==
    { [fn |-> "format_slots_message", done |-> FALSE, slots |-> sl] :
        sl \in FormatSnapshots(max) }

UnitInit ==
    /\ subscribers = {}
    /\ last_slots = <<>>
    /\ pc = "seed_fetch"
    /\ current_slots = None
    /\ has_changes = FALSE
    /\ notif_calls = 0
    /\ batch_slots = <<>>
    /\ notify_list = <<>>
    /\ batch_i = 0
    /\ last_outcome = "none"
    /\ transient = {}
    /\ sent_any = FALSE
    /\ carried = None
    /\ handler = "idle"
    /\ call \in ParseSlotsCalls(MaxDays) \cup CommandCalls \cup CheckSlotsCalls(MaxStores)
                   \cup FormatCalls(MaxRecords)

CallParseSlots ==
    /\ call.fn = "parse_slots" /\ ~call.done
    /\ call' = [fn |-> "parse_slots", done |-> TRUE, data |-> call.data,
                result |-> parse_slots(call.data)]
    /\ UNCHANGED core

RECURSIVE RunCommands(_, _, _)
\* the handlers of the commands ops, one after the other, for the user u
RunCommands(r, u, ops) ==
    IF ops = <<>> THEN r
    ELSE LET e == IF Head(ops) = "subscribe" THEN subscribe_call(r.set, u)
                                            ELSE unsubscribe_call(r.set, u)
         IN  RunCommands([set |-> e.set, raised |-> r.raised \/ e.raised,
                          replies |-> Append(r.replies, e.reply)], u, Tail(ops))

CallCommands ==
    /\ call.fn = "commands" /\ ~call.done
    /\ call' = [fn |-> "commands", done |-> TRUE, before |-> call.before,
                user |-> call.user, ops |-> call.ops,
                result |-> RunCommands([set |-> call.before, raised |-> FALSE,
                                        replies |-> <<>>], call.user, call.ops)]
    /\ UNCHANGED core

\* store_returns records what get_store_slots returns for each store id
CallCheckSlots ==
    /\ call.fn = "check_slots" /\ ~call.done
    /\ call' = [fn |-> "check_slots", done |-> TRUE, search |-> call.search,
                store_slots |-> call.store_slots, direct |-> call.direct,
                store_returns |-> [i \in StoreIds |-> get_store_slots(call.store_slots[i])],
                result |-> check_slots(call.search, call.store_slots, call.direct)]
    /\ UNCHANGED core

CallFormat ==
    /\ call.fn = "format_slots_message" /\ ~call.done
    /\ call' = [fn |-> "format_slots_message", done |-> TRUE, slots |-> call.slots,
                result |-> format_slots_message(call.slots)]
    /\ UNCHANGED core

UnitNext ==
    \/ CallFormat
    \/ CallParseSlots
    \/ CallCommands
    \/ CallCheckSlots

UnitSpec == UnitInit /\ [][UnitNext]_vars

\* every network call and every sleep of the loop returns or raises
LiveSpec == Init /\ [][Next]_vars /\ WF_vars(LoopStep)

TypeOK ==
    /\ subscribers \subseteq Users
    /\ last_slots \in Snapshots
    /\ pc \in {"seed_fetch", "fetch", "send", "pause", "sleep", "sleep_exc"}
    /\ current_slots \in FetchResults
    /\ has_changes \in BOOLEAN
    /\ notif_calls \in {0, 1}
    /\ batch_slots \in Snapshots
    /\ notify_list \in UNION { ListOf(S) : S \in SUBSET Users }
    /\ batch_i \in 0..Len(notify_list)
    /\ last_outcome \in Outcomes \cup {"none"}
    /\ transient \subseteq Users
    /\ sent_any \in BOOLEAN
    /\ carried \in FetchResults
    /\ handler \in {"idle", "status"}

(***************************************************************************)
(* Steps of the loop, as seen from two successive states.                  *)
(***************************************************************************)
Range(f) == { f[i] : i \in DOMAIN f }
InBatch(p) == p \in {"send", "pause"}
Sleeping(p) == p \in {"sleep", "sleep_exc"}

\* the seed fetch returned
SeedStep == pc = "seed_fetch" /\ pc' # "seed_fetch"
\* a fetch of a RUNNING cycle returned; current_slots' is what it returned,
\* current_slots what the fetch before it returned
RunStep == pc = "fetch" /\ pc' # "fetch"
\* the send_message to notify_list[batch_i] returned or raised
SendStep == pc = "send" /\ (pc' # "send" \/ batch_i' # batch_i)
\* send_notifications was left, by return or by an exception
BatchEndStep == InBatch(pc) /\ ~InBatch(pc')

SameKeys(a, b) == KeyList(a) = KeyList(b)

\* the fetch result r holds at least one record (None holds none)
HasSlots(r) == r.slots # <<>>

(***************************************************************************)
(* C1.  The seed fetch sends no notification; a RUNNING cycle whose fetch  *)
(* has the (date, start_time) sequence of last_slots sends no              *)
(* notification; a RUNNING cycle whose fetch is non-empty and differs      *)
(* sends exactly one batch, which carries the fetched snapshot and sends   *)
(* one message to every user in the subscriber set when the batch starts.  *)
(* The last part fails: a batch is left by the KeyError of line 282 with   *)
(* recipients of its list not yet attempted (see C6).                      *)
(***************************************************************************)
C1_NotifyOnChangeOnly ==
    [][ /\ SeedStep => (notif_calls' = 0 /\ notify_list' = <<>> /\ ~sent_any')
        /\ (RunStep /\ SameKeys(current_slots'.slots, last_slots))
              => (notif_calls' = 0 /\ notify_list' = <<>> /\ pc' = "sleep")
        /\ (RunStep /\ HasSlots(current_slots')
                    /\ ~SameKeys(current_slots'.slots, last_slots))
              => /\ notif_calls' = 1
                 /\ batch_slots' = current_slots'.slots
                 /\ Range(notify_list') = subscribers
                 /\ Len(notify_list') = Cardinality(subscribers)
        /\ BatchEndStep => batch_i = Len(notify_list)
      ]_vars

(***************************************************************************)
(* C2.  has_new_slots compares only (date, start_time): for a fetched      *)
(* snapshot with the (date, start_time) sequence of last_slots it returns  *)
(* False, whatever the other fields hold, and leaves last_slots unchanged. *)
(***************************************************************************)
C2_SameKeysUnchanged ==
    [][ (RunStep /\ SameKeys(current_slots'.slots, last_slots))
            => (~has_changes' /\ last_slots' = last_slots) ]_vars

\* a cycle has fetched a snapshot that differs from last_slots in a price
\* only, and reported no change
C2_Witness ==
    /\ pc = "sleep"
    /\ HasSlots(current_slots)
    /\ current_slots.slots # last_slots
    /\ SameKeys(current_slots.slots, last_slots)
    /\ ~has_changes

(***************************************************************************)
(* C3.  For a non-empty fetched snapshot whose (date, start_time) sequence *)
(* differs from that of last_slots, in a pair or in the order,             *)
(* has_new_slots returns True and last_slots becomes the fetched snapshot. *)
(***************************************************************************)
C3_DifferentKeysChanged ==
    [][ (RunStep /\ HasSlots(current_slots')
                 /\ ~SameKeys(current_slots'.slots, last_slots))
            => (has_changes' /\ last_slots' = current_slots'.slots) ]_vars

\* a change was reported for a snapshot of two records with different
\* (date, start_time), which is now last_slots and is being sent
C3_Witness ==
    /\ has_changes
    /\ Len(last_slots) = 2
    /\ KeyList(last_slots)[1] # KeyList(last_slots)[2]
    /\ last_slots = current_slots.slots
    /\ sent_any

(***************************************************************************)
(* C4.  An empty or failed (None) fetch never counts as a change: the      *)
(* cycle reports no change, sends no notification and leaves last_slots as *)
(* it was, whatever last_slots holds; the seed fetch too leaves last_slots *)
(* as it was.                                                              *)
(***************************************************************************)
C4_EmptyFetchNoChange ==
    [][ /\ (RunStep /\ ~HasSlots(current_slots'))
              => /\ ~has_changes'
                 /\ notif_calls' = 0
                 /\ notify_list' = <<>>
                 /\ pc' = "sleep"
                 /\ sent_any' = sent_any
                 /\ last_slots' = last_slots
        /\ (SeedStep /\ ~HasSlots(current_slots')) => last_slots' = last_slots
      ]_vars

\* a cycle has fetched an empty list while last_slots held records and
\* users were subscribed
C4_Witness ==
    /\ pc = "sleep"
    /\ current_slots = SlotList(<<>>)
    /\ last_slots # <<>>
    /\ subscribers # {}

(***************************************************************************)
(* C5.  In a batch the recipient of a send is removed from the subscriber  *)
(* set if and only if that send failed with an error classified as         *)
(* unreachable; a successful send or another failure leaves the set as it  *)
(* was, and no step of the batch removes anybody else.                     *)
(***************************************************************************)
C5_RemovedIffUnreachable ==
    [][ /\ SendStep =>
              /\ (user_id \in subscribers /\ user_id \notin subscribers')
                    <=> (user_id \in subscribers /\ last_outcome' = "unreachable")
              /\ last_outcome' # "unreachable" => subscribers' = subscribers
              /\ subscribers' \ {user_id} = subscribers \ {user_id}
        /\ (pc = "pause" /\ pc' # "pause") => subscribers' = subscribers
      ]_vars

\* in one batch a send failed for another reason and its recipient is still
\* subscribed, and a later send failed as unreachable and its recipient is not
C5_Witness ==
    /\ last_outcome = "unreachable"
    /\ transient # {}
    /\ transient \subseteq subscribers
    /\ Cardinality(subscribers) < MaxUsers
    /\ pc = "sleep"

(***************************************************************************)
(* C6.  A batch is never aborted by a single failure: whatever the         *)
(* outcomes of the sends and whatever subscribe and unsubscribe commands   *)
(* run at its suspension points, send_notifications is left by a normal    *)
(* return after the send to the last recipient of its list.                *)
(* This fails: when the recipient of a pending send unsubscribes and the   *)
(* send then fails as unreachable, line 282 raises KeyError.               *)
(***************************************************************************)
C6_BatchNeverAborted ==
    [][ BatchEndStep => (batch_i = Len(notify_list) /\ pc' = "sleep") ]_vars

(***************************************************************************)
(* C7.  The loop never ends because of one bad cycle: every RUNNING        *)
(* iteration, also one that raised, is followed by one sleep of the fixed  *)
(* interval and then by the next fetch; fetches occur infinitely often.    *)
(***************************************************************************)
C7_LoopNeverStops ==
    /\ [][ (pc \in {"fetch", "send", "pause"} /\ pc' \notin {"fetch", "send", "pause"})
              => Sleeping(pc') ]_vars
    /\ [][ (Sleeping(pc) /\ pc' # pc) => pc' = "fetch" ]_vars
    /\ [](Sleeping(pc) => <>(pc = "fetch"))
    /\ []<>(pc = "fetch")
    /\ []<>(Sleeping(pc))

\* an iteration has raised in its notification step, after a change was
\* detected, and the loop sleeps in its except block (line 323)
C7_Witness ==
    /\ pc = "sleep_exc"
    /\ has_changes
    /\ subscribers # {}

(***************************************************************************)
(* C8.  The loop starts in STARTING, where one fetch seeds last_slots with *)
(* what it fetched (nothing, when the fetch is empty or failed) and sends  *)
(* no notification; it then is RUNNING and never STARTING again; the first *)
(* send_message is called by the step in which a RUNNING fetch returns.    *)
(***************************************************************************)
C8_SeedThenRunning ==
    /\ pc = "seed_fetch" /\ last_slots = <<>> /\ ~sent_any
    /\ [][ SeedStep =>
              /\ pc' = "fetch"
              /\ last_slots' = current_slots'.slots
              /\ notif_calls' = 0 /\ notify_list' = <<>> /\ ~sent_any'
       ]_vars
    /\ [][ pc # "seed_fetch" => pc' # "seed_fetch" ]_vars
    /\ [][ (~sent_any /\ sent_any') => RunStep ]_vars

\* the seed fetch has stored a snapshot while users were subscribed, and no
\* message has been sent
C8_Witness ==
    /\ pc = "fetch"
    /\ last_slots # <<>>
    /\ last_slots = current_slots.slots
    /\ subscribers # {}
    /\ ~sent_any

(***************************************************************************)
(* C9.  As claimed: a subscriber whose send failed in one cycle for a      *)
(* reason other than unreachable, and who stays subscribed, is a recipient *)
(* of a notification in the next cycle (stated here only for a next cycle  *)
(* that fetches slots, so that there is something to send).                *)
(***************************************************************************)
C9_RetriedNextCycle ==
    [][ (RunStep /\ HasSlots(current_slots'))
            => \A u \in transient \cap subscribers : u \in Range(notify_list') ]_vars

(***************************************************************************)
(* C9, amended.  Such a subscriber stays in the set through the failed     *)
(* send, and is a recipient in the next cycle exactly when it is still     *)
(* subscribed as that cycle's fetch returns and the fetch is a non-empty   *)
(* snapshot whose (date, start_time) sequence differs from last_slots.     *)
(***************************************************************************)
C9_RetriedOnlyOnChange ==
    [][ /\ (SendStep /\ last_outcome' = "other")
              => (subscribers' = subscribers /\ user_id \in transient')
        /\ RunStep => \A u \in transient :
              u \in Range(notify_list')
                 <=> (/\ u \in subscribers
                      /\ HasSlots(current_slots')
                      /\ ~SameKeys(current_slots'.slots, last_slots))
      ]_vars

\* a subscriber whose send failed for another reason is still subscribed
\* while the next cycle's fetch is awaited
C9_Witness ==
    /\ pc = "fetch"
    /\ transient \cap subscribers # {}

(***************************************************************************)
(* C10.  Subscribers are notified whenever slots appear: a RUNNING cycle   *)
(* whose fetch is non-empty, after a loop fetch that returned no slots,    *)
(* sends a batch to the subscribers.                                       *)
(* This fails: an empty fetch leaves last_slots, so the same slots         *)
(* appearing again are no change.                                          *)
(***************************************************************************)
C10_NotifiedWhenSlotsAppear ==
    [][ (RunStep /\ HasSlots(current_slots') /\ ~HasSlots(current_slots)
                 /\ subscribers # {})
            => (notif_calls' = 1 /\ pc' = "send" /\ Range(notify_list') = subscribers)
      ]_vars

(***************************************************************************)
(* C11.  The notifications of one cycle are fully sent, or skipped         *)
(* recipient by recipient, before the next fetch begins: a fetch is        *)
(* started only from the sleep that ends an iteration, never while a batch *)
(* is in progress, and a batch is left only after the send to the last     *)
(* recipient of its list was attempted.                                    *)
(* The last part fails: the KeyError of line 282 ends the batch of the     *)
(* cycle with recipients never attempted, and the next fetch begins (C6).  *)
(***************************************************************************)
C11_BatchDoneBeforeNextFetch ==
    /\ [](pc \in {"seed_fetch", "fetch"} => (notify_list = <<>> /\ batch_i = 0))
    /\ [][ (pc # "fetch" /\ pc' = "fetch") => (pc = "seed_fetch" \/ Sleeping(pc)) ]_vars
    /\ [][ (InBatch(pc) /\ pc' # pc) => (InBatch(pc') \/ Sleeping(pc')) ]_vars
    /\ [][ (InBatch(pc) /\ Sleeping(pc')) => batch_i = Len(notify_list) ]_vars

(***************************************************************************)
(* C18.  After unsubscribe of user u has completed, no notification is     *)
(* sent to u until u subscribes again: every send_message is called for a  *)
(* user who is in the subscriber set at that moment.                       *)
(* This fails: the batch sends to the list it took when it started.        *)
(***************************************************************************)
C18_NoSendAfterUnsubscribe ==
    [][ (pc' = "send" /\ (pc # "send" \/ batch_i' # batch_i))
            => notify_list'[batch_i'] \in subscribers' ]_vars

(***************************************************************************)
(* C19.  last_slots is the initial empty list or a non-empty snapshot that *)
(* a fetch of the loop returned: it changes only in the step in which the  *)
(* seed fetch or a RUNNING fetch returns, to the non-empty list that fetch *)
(* returned; once non-empty it is never empty again.                       *)
(***************************************************************************)
C19_LastSlotsFromLoopFetch ==
    /\ pc = "seed_fetch" => last_slots = <<>>
    /\ [][ last_slots' # last_slots
              => /\ SeedStep \/ RunStep
                 /\ last_slots' # <<>>
                 /\ ~current_slots'.none
                 /\ last_slots' = current_slots'.slots ]_vars
    /\ [][ last_slots # <<>> => last_slots' # <<>> ]_vars

\* last_slots holds records and the loop has just fetched an empty list
C19_Witness ==
    /\ last_slots # <<>>
    /\ pc = "sleep"
    /\ current_slots = SlotList(<<>>)
    /\ sent_any

(***************************************************************************)
(* C20.  No two consecutive batches carry snapshots with the same sequence *)
(* of (date, start_time), and when a batch starts last_slots is the        *)
(* snapshot it carries.                                                    *)
(***************************************************************************)
C20_ConsecutiveBatchesDiffer ==
    [][ (RunStep /\ notif_calls' = 1)
            => /\ last_slots' = batch_slots'
               /\ carried' = SlotList(batch_slots')
               /\ ~carried.none => ~SameKeys(carried.slots, batch_slots') ]_vars

\* a batch for a snapshot of MaxSlots records has called its first send
C20_Witness ==
    /\ pc = "send"
    /\ batch_i = 1
    /\ carried = SlotList(batch_slots)
    /\ last_slots = batch_slots
    /\ Len(batch_slots) = MaxSlots

(***************************************************************************)
(* C12.  start, status and info leave the subscriber set and last_slots    *)
(* unchanged, also when the fetch of status runs between the steps of a    *)
(* cycle; the subscriber set changes only through subscribe, unsubscribe   *)
(* and the removal of an unreachable recipient, last_slots only through    *)
(* the seed step and the change detection of a cycle.                      *)
(***************************************************************************)
C12_CommandsFrame ==
    [][ /\ handler' # handler
              => (subscribers' = subscribers /\ last_slots' = last_slots)
        /\ subscribers' # subscribers
              => \/ handler = "idle" /\ handler' = "idle" /\ pc' = pc /\ batch_i' = batch_i
                 \/ SendStep /\ last_outcome' = "unreachable"
        /\ last_slots' # last_slots
              => (SeedStep \/ (RunStep /\ has_changes'))
      ]_vars

\* status awaits its fetch while a batch of the loop is in progress
C12_Witness ==
    /\ handler = "status"
    /\ pc = "pause"
    /\ last_slots # <<>>
    /\ batch_i < Len(notify_list)

(***************************************************************************)
(* C16.  parse_slots returns exactly the slots of the response's day list, *)
(* in day order and then slot order, whose availability flag is true and   *)
(* whose type is 'regular': the records returned are, in order, those of   *)
(* the positions (day, slot) of such slots; other slots yield nothing.     *)
(***************************************************************************)
\* the day list parse_slots reads
DaysRead(data) == IF data.slots = <<>> THEN data.available_slots ELSE data.slots

\* the positions <<day, slot>> of the available regular slots
Kept(days) ==
    UNION { { <<d, i>> : i \in { j \in 1..Len(days[d].slots) :
                                   /\ days[d].slots[j].available = TRUE
                                   /\ days[d].slots[j].type = "regular" } } :
            d \in 1..Len(days) }

Before(p, q) == p[1] < q[1] \/ (p[1] = q[1] /\ p[2] < q[2])

C16_ParseKeepsAvailableRegular ==
    (call.fn = "parse_slots" /\ call.done) =>
        LET days == DaysRead(call.data)
            out == call.result
        IN  /\ Len(out) = Cardinality(Kept(days))
            /\ \E f \in [1..Len(out) -> Kept(days)] :
                  /\ \A j, k \in 1..Len(out) : j < k => Before(f[j], f[k])
                  /\ \A k \in 1..Len(out) :
                        LET day == days[f[k][1]]
                            slot == day.slots[f[k][2]]
                        IN  out[k] = [date |-> day.date, start_time |-> slot.from,
                                      end_time |-> slot.to, price |-> slot.price,
                                      currency |-> slot.currency]

\* parse_slots has returned two records of different days, from a response
\* that also held a slot that is not available and one that is not regular
C16_Witness ==
    /\ call.fn = "parse_slots" /\ call.done
    /\ Len(call.result) = 2
    /\ call.result[1].date # call.result[2].date
    /\ \E d \in 1..Len(call.data.slots) :
          \E i \in 1..Len(call.data.slots[d].slots) :
             ~call.data.slots[d].slots[i].available
    /\ \E d \in 1..Len(call.data.slots) :
          \E i \in 1..Len(call.data.slots[d].slots) :
             call.data.slots[d].slots[i].type # "regular"

(***************************************************************************)
(* C13.  subscribe(u) followed by unsubscribe(u) leaves the subscriber set *)
(* without u; subscribe is idempotent (subscribing twice leaves the set    *)
(* that subscribing once leaves); unsubscribe of a user that is not        *)
(* subscribed changes nothing and does not raise.                          *)
(***************************************************************************)
C13_SubscribeUnsubscribe ==
    (call.fn = "commands" /\ call.done) =>
        LET S == call.before
            u == call.user
            r == call.result
        IN  /\ call.ops = <<"subscribe", "unsubscribe">> =>
                 (u \notin r.set /\ r.set = S \ {u})
            /\ call.ops \in {<<"subscribe">>, <<"subscribe", "subscribe">>} =>
                 r.set = S \cup {u}
            /\ (call.ops = <<"unsubscribe">> /\ u \notin S) =>
                 (r.set = S /\ ~r.raised)
            /\ call.ops = <<"unsubscribe", "unsubscribe">> => ~r.raised

\* unsubscribe has run for a user that the set, which is not empty, did not hold
C13_Witness ==
    /\ call.fn = "commands" /\ call.done
    /\ call.ops = <<"unsubscribe">>
    /\ call.before # {}
    /\ call.user \notin call.before
    /\ call.result.replies = <<"not_subscribed">>

(***************************************************************************)
(* C14.  check_slots never raises: for every outcome of the search, the    *)
(* store-slots and the fallback requests it returns a list of slot         *)
(* records, possibly empty, or None.                                       *)
(***************************************************************************)
C14_CheckSlotsNeverRaises ==
    (call.fn = "check_slots" /\ call.done) =>
        /\ ~call.result.raised
        /\ \/ call.result.val = None
           \/ /\ call.result.val = SlotList(call.result.val.slots)
              /\ DOMAIN call.result.val.slots = 1..Len(call.result.val.slots)

\* check_slots has returned None for a search response whose body could not
\* be read, although the fallback request would have returned a slot
C14_Witness ==
    /\ call.fn = "check_slots" /\ call.done
    /\ call.search.kind = "malformed"
    /\ call.direct.kind = "ok" /\ call.direct.body # BodyEmpty
    /\ call.result.val = None

(***************************************************************************)
(* C17.  direct_slots_check is invoked if and only if the search           *)
(* identified no target store (its response was not 200, or no store of    *)
(* the response matched the target address); when a store was identified,  *)
(* what get_store_slots returns for the first matching store is returned,  *)
(* None included, and the fallback is not invoked.                         *)
(***************************************************************************)
\* the store list of a search response
StoresOf(search) == search.found_stores \o search.stores

Matching(search) ==
    { i \in 1..Len(StoresOf(search)) :
         StoresOf(search)[i].street /\ StoresOf(search)[i].twenty }

\* the first store of the response that matches the target address
FirstMatching(search) ==
    StoresOf(search)[CHOOSE i \in Matching(search) : \A j \in Matching(search) : i <= j]

\* a store is identified when a store matches and carries an identifier; no
\* target store is identified when the response is not 200 or is a store
\* list without a match
C17_FallbackIffNoTarget ==
    (call.fn = "check_slots" /\ call.done) =>
        LET no_target ==
                \/ call.search.kind = "status"
                \/ call.search.kind = "ok" /\ Matching(call.search) = {}
            identified ==
                /\ call.search.kind = "ok"
                /\ Matching(call.search) # {}
                /\ FirstMatching(call.search).id \in StoreIds
        IN  /\ call.result.direct <=> no_target
            /\ identified =>
                 /\ call.result.asked = <<FirstMatching(call.search).id>>
                 /\ call.result.val = call.store_returns[FirstMatching(call.search).id]

(***************************************************************************)
(* C15.  format_slots_message applied to a snapshot of n records renders   *)
(* exactly min(n, 15) entries; when n > 15 it adds one summary line        *)
(* stating that n - 15 more slots exist; when n <= 15 it adds none.        *)
(***************************************************************************)
Parts(message, k) == SelectSeq(message, LAMBDA part : part.kind = k)

SummaryAsClaimed(n, message) ==
    /\ n > 15 => (Len(Parts(message, "more")) = 1 /\ Parts(message, "more")[1].n = n - 15)
    /\ n <= 15 => Len(Parts(message, "more")) = 0

C15_RendersMin15 ==
    (call.fn = "format_slots_message" /\ call.done) =>
        /\ Len(Parts(call.result, "entry")) =
              (IF Len(call.slots) < 15 THEN Len(call.slots) ELSE 15)
        /\ SummaryAsClaimed(Len(call.slots), call.result)

(***************************************************************************)
(* C15 as amended.  The entries rendered are, in order and numbered by     *)
(* position, those of the first min(n, 15) records whose date              *)
(* strptime('%Y-%m-%d') accepts, so exactly min(n, 15) when every date is  *)
(* accepted; the summary line is as the claim says.                        *)
(***************************************************************************)
C15_RendersDatedOfFirst15 ==
    (call.fn = "format_slots_message" /\ call.done) =>
        LET n == Len(call.slots)
            first == 1..(IF n < 15 THEN n ELSE 15)
            dated == { i \in first : strptime(call.slots[i].date).ok }
            entries == Parts(call.result, "entry")
        IN  /\ Len(entries) = Cardinality(dated)
            /\ { entries[k].n : k \in 1..Len(entries) } = dated
            /\ \A j, k \in 1..Len(entries) : j < k => entries[j].n < entries[k].n
            /\ dated = first => Len(entries) = (IF n < 15 THEN n ELSE 15)
            /\ SummaryAsClaimed(n, call.result)

\* twenty records, one of the first fifteen without a date: fourteen entries
\* and the summary line for five more
C15_Witness ==
    /\ call.fn = "format_slots_message" /\ call.done
    /\ Len(call.slots) = 20
    /\ \E i \in 1..15 : call.slots[i].date = <<>>
    /\ Len(Parts(call.result, "entry")) = 14
    /\ Parts(call.result, "more") = <<[kind |-> "more", n |-> 5]>>

====
